---------------------------- MODULE Spec2Model ----------------------------
(***************************************************************************)
(* METARmap.py: a render loop (main) that drives an LED strip from a       *)
(* guarded Condition Store, and a background fetch thread (_do_fetch)      *)
(* that replaces the store.                                                *)
(*                                                                         *)
(* Time.  The program reads the wall clock only to compare it with a time  *)
(* it stored earlier, so each stored time is kept as its distance from the *)
(* clock: wait_elapsed = time.time() - t0, display_left = display_until -  *)
(* time.time(), last_fetch_age = time.time() - _last_fetch.  Tick moves    *)
(* the clock by TickS seconds; every other step takes no time of its own,  *)
(* so a step may be arbitrarily slow or fast with respect to the clock.    *)
(***************************************************************************)
EXTENDS Integers, Sequences, FiniteSets, TLC

VARIABLES
    \* ---- configuration, fixed in a behaviour ----
    LED_COUNT,        \* number of physical LEDs
    AIRPORTS,         \* LED index -> station id ("" = unmapped), 1-based here
    ALWAYS_ANIMATE_FOR_GUSTS,  \* user setting, False as shipped
    probe,            \* arguments and results of a function applied on its
                      \* own (SpecColor, SpecParse); unused by the program
    \* ---- module globals of METARmap.py ----
    _conds,           \* the Condition Store: station id -> Condition
    _conds_lock,      \* holder of the lock: LockFree, LockMain or a thread id
    last_fetch_age,   \* time.time() - _last_fetch, at most FETCH_EVERY_S
    _fetching,        \* in-flight guard flag
    _refresh_stale,   \* stale flag written by the fetch thread
    \* ---- fetch threads ----
    threads,          \* thread id -> locals of that _do_fetch activation
    \* ---- locals of main() ----
    pc,               \* position of the main thread
    state,            \* STATE_REFRESH / STATE_DISPLAY
    display_left,     \* display_until - time.time(), at least 0
    wait_elapsed,     \* time.time() - t0 in start_fetch_and_wait, at most timeout_s
    conds,            \* main's snapshot of the store
    stale,            \* stale flag handed to run_refresh_animation
    targets,          \* river targets / fade-out snapshot colours
    idx,              \* LED being faded in by the river
    step,             \* fade step s of the river / the fade-out
    pixels,           \* committed LED buffer, 1-based here
    \* ---- history (observation only, never read by the program) ----
    \* joined: the current start_fetch_and_wait found a fetch in flight;
    \* waited: how the wait of the current refresh ended; lastOutcome,
    \* lastInitial, lastSame: how the latest finished fetch ended, whether
    \* the store was empty before it and whether it rebuilt the same store
    \* ("none" while a newer fetch runs); before, after: the stores around
    \* the latest swap; pending: the store changed since the last refresh
    \* snapshot; dispPending: the display frame shows such a store;
    \* oob: a pixel or mapping index was out of range; snapLead: between
    \* main's copy of the store and its read of _refresh_stale, 1 when the
    \* copied store is newer than the flag, -1 when the flag is newer than
    \* the copied store, else 0; mispaired: the river runs with a store and
    \* a flag of which one is newer than the other; waits, rivers: the
    \* waits for the fetch and the river animations finished since REFRESH
    \* was entered; fades: the fade-outs begun since DISPLAY was entered
    \* (each counted up to 2).
    hist

vars == << LED_COUNT, AIRPORTS, ALWAYS_ANIMATE_FOR_GUSTS, probe, _conds, _conds_lock, last_fetch_age, _fetching,
           _refresh_stale, threads, pc, state, display_left, wait_elapsed,
           conds, stale, targets, idx, step, pixels, hist >>

----------------------------------------------------------------------------
\* Bounds of the model.
MaxLeds    == 2      \* LED_COUNT ranges over 1..MaxLeds
MaxMap     == 2      \* the mapping holds 0..MaxMap entries
MaxThreads == 2      \* thread slots (the program never needs the second)
TickS      == 150    \* seconds per Tick
HorizonMs  == 3000   \* display frames are followed for this long
MaxRecs    == 3      \* records in a response parsed on its own
REFRESH_FADE_STEPS == 2  \* fade steps per LED (a smoothness setting, 20 as shipped)

\* Program constants (USER SETTINGS).
ACTIVATE_WIND_ANIMATION      == TRUE
ACTIVATE_LIGHTNING_ANIMATION == TRUE
FADE_INSTEAD_OF_BLINK        == TRUE
WIND_BLINK_SPEED_MS          == 1000
LIGHTNING_FLASH_PERIOD_MS    == 2250
LIGHTNING_FLASH_WINDOW_MS    == 80
LIGHTNING_FADE_DURATION_MS   == 800
WIND_ANIM_THRESHOLD_KT       == 25
VERY_HIGH_WIND_YELLOW_KT     == 35
FETCH_EVERY_S                == 300
ERROR_RETRY_S                == 60
NETWORK_TIMEOUT_S            == 10
FETCH_TRIES                  == 3

COLOR_VFR       == <<0, 255, 0>>
COLOR_MVFR      == <<0, 0, 255>>
COLOR_IFR       == <<255, 0, 0>>
COLOR_LIFR      == <<255, 0, 255>>
COLOR_CLEAR     == <<0, 0, 0>>
COLOR_LIGHTNING == <<255, 255, 255>>
COLOR_HIGHWIND  == <<255, 255, 0>>
COLOR_NODATA    == <<5, 5, 5>>

STATE_REFRESH == 0
STATE_DISPLAY == 1

\* The mapping is a prefix of this list (entries of AIRPORTS, and one LED
\* that is left unmapped).
AirportList == << "KRBG", "", "K77S", "KEUG" >>

\* sum(ord(c) for c in s) of the station ids above.
OrdSum(s) ==
    CASE s = "KRBG" -> 294
      [] s = "K77S" -> 268
      [] s = "KEUG" -> 300
      [] OTHER      -> 0

\* A value that is absent (None, a missing key, unparseable text).
NoVal == -1

\* The absent Condition (conds.get(icao) of a station not in the store).
None == [none |-> TRUE]

Min(a, b) == IF a < b THEN a ELSE b
Max(a, b) == IF a > b THEN a ELSE b

----------------------------------------------------------------------------
\* ---------- utils ----------

\* to_int(v, default=0): the number, or the default when it does not parse.
to_int(v) == IF v = NoVal THEN 0 ELSE v

\* blend(c1, c2, alpha) with alpha = num/den; clamp01, then per channel
\* int(c1*(1-a) + c2*a), truncated.
blend(c1, c2, num, den) ==
    LET n == IF num < 0 THEN 0 ELSE IF num > den THEN den ELSE num
    IN  [ch \in 1..3 |-> (c1[ch] * (den - n) + c2[ch] * n) \div den]

\* _hash01(s, mod) = ((sum % mod) + 0.5) / mod, kept as the fraction
\* HashNum / HashDen.
HashNum(s, mod) == IF s = "" THEN 0 ELSE 2 * (OrdSum(s) % mod) + 1
HashDen(mod)    == 2 * mod

\* int(c*a) per channel, a = num/den (the fades of the river and fade-out).
scale(c, num, den) == [ch \in 1..3 |-> (c[ch] * num) \div den]

----------------------------------------------------------------------------
\* ---------- color/animation (times in milliseconds) ----------

\* base_color with the no-data colour for a category it does not know.
base_color_nodata_default(fc) ==
    CASE fc = "VFR"  -> COLOR_VFR
      [] fc = "MVFR" -> COLOR_MVFR
      [] fc = "IFR"  -> COLOR_IFR
      [] fc = "LIFR" -> COLOR_LIFR
      [] OTHER       -> COLOR_NODATA

base_color(fc) ==
    CASE fc = "VFR"  -> COLOR_VFR
      [] fc = "MVFR" -> COLOR_MVFR
      [] fc = "IFR"  -> COLOR_IFR
      [] fc = "LIFR" -> COLOR_LIFR
      [] OTHER       -> COLOR_CLEAR

\* is_very_high_wind comparing with the animation threshold.
is_very_high_wind_at_anim_threshold(cond) ==
    Max(cond.windSpeed, cond.windGustSpeed) >= WIND_ANIM_THRESHOLD_KT

is_very_high_wind(cond) ==
    Max(cond.windSpeed, cond.windGustSpeed) >= VERY_HIGH_WIND_YELLOW_KT

\* wind_should_animate without the ALWAYS_ANIMATE_FOR_GUSTS line.
wind_should_animate_threshold_only(cond) ==
    IF ~ACTIVATE_WIND_ANIMATION THEN FALSE
    ELSE Max(cond.windSpeed, cond.windGustSpeed) >= WIND_ANIM_THRESHOLD_KT

wind_should_animate(cond) ==
    IF ~ACTIVATE_WIND_ANIMATION THEN FALSE
    ELSE IF ALWAYS_ANIMATE_FOR_GUSTS /\ cond.windGustSpeed > 0 THEN TRUE
    ELSE Max(cond.windSpeed, cond.windGustSpeed) >= WIND_ANIM_THRESHOLD_KT

\* jittered_period(base, icao, spread=0.2): base * (1 + 0.2*(2*h - 1)),
\* h = _hash01(icao, 733), at least 50 ms.
jittered_period(base_ms, icao) ==
    LET hn == HashNum(icao, 733)
        hd == HashDen(733)
    IN  Max(50, (base_ms * (5 * hd + 2 * hn - hd)) \div (5 * hd))

wind_blink_on(t, icao) ==
    LET period == jittered_period(WIND_BLINK_SPEED_MS, icao)
        offset == (HashNum(icao, 991) * period) \div HashDen(991)
        phase  == (t + offset) % (2 * period)
    IN  phase < period

\* lightning_gate_and_fade with the phase not wrapped to the period: one
\* flash only, at the start of the clock.
lightning_gate_and_fade_no_wrap(t, icao) ==
    LET base_period  == Max(200, LIGHTNING_FLASH_PERIOD_MS)
        start_offset == (HashNum(icao, 953) * base_period) \div HashDen(953)
        x            == t + start_offset
        flash_window == Max(0, LIGHTNING_FLASH_WINDOW_MS)
        fade_dur     == Max(0, LIGHTNING_FADE_DURATION_MS)
        max_fade_end == Min(base_period, flash_window + fade_dur)
        span         == Max(1, max_fade_end - flash_window)
    IN  IF x < flash_window THEN <<1, 1>>
        ELSE IF x < max_fade_end THEN <<span - (x - flash_window), span>>
        ELSE <<0, 1>>

\* lightning_gate_and_fade(t, icao): whiteness as the fraction
\* <<numerator, denominator>>.
lightning_gate_and_fade(t, icao) ==
    LET base_period  == Max(200, LIGHTNING_FLASH_PERIOD_MS)
        start_offset == (HashNum(icao, 953) * base_period) \div HashDen(953)
        x            == (t + start_offset) % base_period
        flash_window == Max(0, LIGHTNING_FLASH_WINDOW_MS)
        fade_dur     == Max(0, LIGHTNING_FADE_DURATION_MS)
        max_fade_end == Min(base_period, flash_window + fade_dur)
        span         == Max(1, max_fade_end - flash_window)
    IN  IF x < flash_window THEN <<1, 1>>
        ELSE IF x < max_fade_end THEN <<span - (x - flash_window), span>>
        ELSE <<0, 1>>

\* pick_color_for_station with the wind animation tested before the very
\* high wind.
pick_color_for_station_animation_first(cond, tnow, icao) ==
    IF cond = None THEN COLOR_NODATA
    ELSE
      LET base == base_color(cond.flightCategory)
          w    == lightning_gate_and_fade(tnow, icao)
      IN  IF ACTIVATE_LIGHTNING_ANIMATION /\ cond.lightning /\ w[1] >= w[2]
            THEN COLOR_LIGHTNING
          ELSE IF ACTIVATE_LIGHTNING_ANIMATION /\ cond.lightning /\ w[1] > 0
            THEN blend(base, COLOR_LIGHTNING, w[1], w[2])
          ELSE IF wind_should_animate(cond)
            THEN IF FADE_INSTEAD_OF_BLINK
                   THEN blend(base, COLOR_HIGHWIND,
                              IF wind_blink_on(tnow, icao) THEN 1 ELSE 0, 1)
                   ELSE IF wind_blink_on(tnow, icao) THEN COLOR_HIGHWIND
                        ELSE base
          ELSE IF is_very_high_wind(cond) THEN COLOR_HIGHWIND
          ELSE base

\* pick_color_for_station(cond, tnow, icao); cond = None when absent.
pick_color_for_station(cond, tnow, icao) ==
    IF cond = None THEN COLOR_NODATA
    ELSE
      LET base == base_color(cond.flightCategory)
          w    == lightning_gate_and_fade(tnow, icao)
      IN  IF ACTIVATE_LIGHTNING_ANIMATION /\ cond.lightning /\ w[1] >= w[2]
            THEN COLOR_LIGHTNING
          ELSE IF ACTIVATE_LIGHTNING_ANIMATION /\ cond.lightning /\ w[1] > 0
            THEN blend(base, COLOR_LIGHTNING, w[1], w[2])
          ELSE IF is_very_high_wind(cond) THEN COLOR_HIGHWIND
          ELSE IF wind_should_animate(cond)
            THEN IF FADE_INSTEAD_OF_BLINK
                   THEN blend(base, COLOR_HIGHWIND,
                              IF wind_blink_on(tnow, icao) THEN 1 ELSE 0, 1)
                   ELSE IF wind_blink_on(tnow, icao) THEN COLOR_HIGHWIND
                        ELSE base
          ELSE base

----------------------------------------------------------------------------
\* ---------- METAR fetch/parse ----------

\* A record of the API: the station id, reportTime (NoVal when missing or
\* not ISO), fltCat, wspd, wgst (NoVal when missing or not a number) and
\* rawOb as its sequence of tokens.
Rec(icao, rt, fc, wspd, wgst, raw) ==
    [icaoId |-> icao, reportTime |-> rt, fltCat |-> fc, wspd |-> wspd,
     wgst |-> wgst, rawOb |-> raw]

\* An element of the JSON list that is not an object.
NotARecord == [notdict |-> TRUE]

R_KRBG_old == Rec("KRBG", 100, "VFR", 5, NoVal, << "KRBG", "05KT" >>)
R_KRBG_new == Rec("krbg ", 200, "ifr", 30, 0, << "KRBG", "30KT", "RMK", "LTG" >>)
R_K77S     == Rec("K77S", 100, "MVFR", 10, 40, << "K77S", "TS" >>)
R_KEUG     == Rec("KEUG", NoVal, "", NoVal, NoVal, << "KEUG", "TS", "RMK", "TSNO" >>)
R_noid     == Rec("", 300, "LIFR", 0, 0, << >>)

\* What one urlopen can produce: a body (its JSON shape and the records in
\* it) or status 204.
Responses ==
    { [status |-> 200, kind |-> "features",  recs |-> << R_KRBG_old, R_K77S, R_KEUG >>],
      [status |-> 200, kind |-> "list",      recs |-> << R_KRBG_new, R_KRBG_old, R_noid >>],
      [status |-> 200, kind |-> "dict",      recs |-> << >>],
      [status |-> 200, kind |-> "list",      recs |-> << NotARecord >>],
      [status |-> 200, kind |-> "malformed", recs |-> << >>],
      [status |-> 204, kind |-> "empty",     recs |-> << >>] }

\* datetime.now() at each record of one parse: later than every reportTime
\* above.
WallSamples == { << 1000, 1000, 1000 >> }

\* a.strip().upper() on the station ids that occur.
StripUpper(s) ==
    CASE s = "krbg " -> "KRBG"
      [] s = "ifr"   -> "IFR"
      [] OTHER       -> s

\* STATION_IDS: the non-empty entries of the mapping.
STATION_IDS == { StripUpper(AIRPORTS[i]) : i \in { j \in DOMAIN AIRPORTS : AIRPORTS[j] # "" } }

\* fetch_bytes turns status 204 into the body "[]"; parse_json_records
\* gives the records of a FeatureCollection, of a dict's data, of a list,
\* and [] for anything that is not JSON.
parse_json_records(resp) ==
    IF resp.status = 204 THEN << >>
    ELSE CASE resp.kind = "features"  -> resp.recs
           [] resp.kind = "dict"      -> resp.recs
           [] resp.kind = "list"      -> resp.recs
           [] OTHER                   -> << >>

\* r.get(...) raises on an element that is not a dict.
conditions_raises(records) ==
    \E i \in DOMAIN records : records[i] = NotARecord

\* obs_dt of a record: its reportTime, or now() when missing or unparseable.
\* clock holds what now() returns at this record and at the ones after it.
obs_dt(r, clock) == IF r.reportTime = NoVal THEN Head(clock) ELSE r.reportTime

\* The first loop without its comparison: the last record of a station
\* replaces the earlier ones.
RECURSIVE latest_of_last_wins(_, _, _)
latest_of_last_wins(records, clock, latest) ==
    IF records = << >> THEN latest
    ELSE LET r    == Head(records)
             icao == StripUpper(r.icaoId)
             t    == obs_dt(r, clock)
         IN  IF icao = "" THEN latest_of_last_wins(Tail(records), Tail(clock), latest)
             ELSE latest_of_last_wins(Tail(records), Tail(clock),
                      [k \in DOMAIN latest \cup {icao} |->
                          IF k = icao THEN [r |-> r, _dt |-> t] ELSE latest[k]])

\* First loop of conditions_from_json: latest[icao] = the record with the
\* greatest obs_dt seen so far (a later equal one does not replace it).
RECURSIVE latest_of(_, _, _)
latest_of(records, clock, latest) ==
    IF records = << >> THEN latest
    ELSE LET r    == Head(records)
             icao == StripUpper(r.icaoId)
             t    == obs_dt(r, clock)
         IN  IF icao = "" THEN latest_of(Tail(records), Tail(clock), latest)
             ELSE IF icao \notin DOMAIN latest \/ t > latest[icao]._dt
               THEN latest_of(Tail(records), Tail(clock),
                      [k \in DOMAIN latest \cup {icao} |->
                          IF k = icao THEN [r |-> r, _dt |-> t] ELSE latest[k]])
               ELSE latest_of(Tail(records), Tail(clock), latest)

\* body = raw.split(" RMK", 1)[0]
RECURSIVE body_of(_)
body_of(raw) ==
    IF raw = << >> \/ Head(raw) = "RMK" THEN << >>
    ELSE << Head(raw) >> \o body_of(Tail(raw))

Tokens(seq) == { seq[i] : i \in DOMAIN seq }

lightning_of(raw) ==
    /\ ("LTG" \in Tokens(body_of(raw)) \/ "TS" \in Tokens(body_of(raw)))
    /\ "TSNO" \notin Tokens(raw)

EmptyStore == [k \in {} |-> None]

conditions_from_json(records, clock) ==
    LET latest == latest_of(records, clock, EmptyStore)
    IN  [icao \in DOMAIN latest |->
           [flightCategory |-> StripUpper(latest[icao].r.fltCat),
            windSpeed      |-> to_int(latest[icao].r.wspd),
            windGustSpeed  |-> to_int(latest[icao].r.wgst),
            lightning      |-> lightning_of(latest[icao].r.rawOb),
            obsTime        |-> latest[icao]._dt]]

\* _sig(d): the sorted list of per-station tuples; station ids are unique,
\* so two sorted lists are equal exactly when their sets of tuples are.
_sig(d) ==
    { << k, d[k].flightCategory, d[k].windSpeed, d[k].windGustSpeed,
         d[k].lightning, d[k].obsTime >> : k \in DOMAIN d }

----------------------------------------------------------------------------
\* ---------- state ----------

ThreadIds == 1..MaxThreads

\* Holders of _conds_lock: nobody, the main thread, or a fetch thread's id.
LockFree == 0
LockMain == -1

\* A thread slot with no _do_fetch running in it.
IdleThread ==
    [pc |-> "idle", prev_conds |-> EmptyStore, tries |-> 0,
     new_conds |-> EmptyStore, changed |-> FALSE, err |-> "none"]

Running == { i \in ThreadIds : threads[i].pc # "idle" }

\* The mapping's length taken for the number of LEDs to render.
usable_leds_unclamped == Len(AIRPORTS)

\* usable_leds = min(len(AIRPORTS), LED_COUNT)
usable_leds == Min(Len(AIRPORTS), LED_COUNT)

\* timeout_s of the call in main: NETWORK_TIMEOUT_S*3
WaitTimeout == NETWORK_TIMEOUT_S * 3

\* Values time.monotonic() takes at a frame, in milliseconds.
MonoSamples == { 0, 1400 }

\* conds.get(icao) if icao else None
conds_get(d, icao) == IF icao # "" /\ icao \in DOMAIN d THEN d[icao] ELSE None

\* pixels[i] = colour[i] for the 0-based indices in W, then pixels.show():
\* writes inside the strip land in the buffer, a write outside it is an
\* IndexError.
WriteOk(W)              == W \subseteq 0..(LED_COUNT - 1)
Written(buf, W, colour) ==
    [i \in DOMAIN buf |-> IF (i - 1) \in W THEN colour[i - 1] ELSE buf[i]]

\* AIRPORTS[idx] for the 0-based indices in W is an IndexError outside the
\* mapping.
MapOk(W)   == W \subseteq 0..(Len(AIRPORTS) - 1)
airport(i) == IF (i + 1) \in DOMAIN AIRPORTS THEN AIRPORTS[i + 1] ELSE ""

\* The mappings and strips of the model.
Mappings == { SubSeq(AirportList, 1, n) : n \in 0..MaxMap }

\* The state after the module is loaded and main() has built the strip.
Startup ==
    /\ _conds = EmptyStore
    /\ _conds_lock = LockFree
    /\ last_fetch_age = FETCH_EVERY_S
    /\ _fetching = FALSE
    /\ _refresh_stale = FALSE
    /\ threads = [i \in ThreadIds |-> IdleThread]
    /\ pc = "loop"
    /\ state = STATE_REFRESH
    /\ display_left = 0
    /\ wait_elapsed = 0
    /\ conds = EmptyStore
    /\ stale = FALSE
    /\ targets = << >>
    /\ idx = 0
    /\ step = 0
    /\ pixels = [i \in 1..LED_COUNT |-> COLOR_CLEAR]
    /\ hist = [joined |-> FALSE, waited |-> "none",
               lastOutcome |-> "none", lastInitial |-> TRUE, lastSame |-> TRUE,
               before |-> EmptyStore, after |-> EmptyStore,
               pending |-> FALSE, dispPending |-> FALSE, oob |-> FALSE,
               snapLead |-> 0, mispaired |-> FALSE,
               waits |-> 0, rivers |-> 0, fades |-> 0]

\* No function is applied on its own.
NoProbe == [kind |-> "none"]

\* The settings as shipped.
Shipped ==
    /\ ALWAYS_ANIMATE_FOR_GUSTS = FALSE
    /\ probe = NoProbe

\* The largest strip and mapping of the model.
Init ==
    /\ LED_COUNT = MaxLeds
    /\ AIRPORTS = SubSeq(AirportList, 1, MaxMap)
    /\ Shipped
    /\ Startup

\* Any strip with any mapping, shorter, equal or longer.
InitLayout ==
    /\ LED_COUNT \in 1..MaxLeds
    /\ AIRPORTS \in Mappings
    /\ Shipped
    /\ Startup

cfgVars   == << LED_COUNT, AIRPORTS, ALWAYS_ANIMATE_FOR_GUSTS, probe >>
flagVars  == << _fetching, _refresh_stale >>
timeVars  == << last_fetch_age, display_left, wait_elapsed >>
ledVars   == << targets, idx, step, pixels >>

Alive == pc \notin { "crashed", "exited" }

----------------------------------------------------------------------------
\* ---------- _do_fetch, one activation per thread slot ----------

\* with _conds_lock:  (entering, at either of the two places)
FetchLock(i) ==
    /\ Alive /\ threads[i].pc \in { "prev_lock", "swap_lock" }
    /\ _conds_lock = LockFree
    /\ _conds_lock' = i
    /\ threads' = [threads EXCEPT
          ![i].pc = IF threads[i].pc = "prev_lock" THEN "prev_copy" ELSE "swap"]
    /\ UNCHANGED << cfgVars, _conds, flagVars, timeVars, pc, state, conds,
                    stale, ledVars, hist >>

\* prev_conds = _conds.copy(); is_initial = not bool(prev_conds).  With no
\* station id there is no chunk and no request: recs = [].
FetchPrevCopy(i) ==
    /\ Alive /\ threads[i].pc = "prev_copy" /\ _conds_lock = i
    /\ _conds_lock' = LockFree
    /\ threads' = [threads EXCEPT
          ![i].prev_conds = _conds,
          ![i].pc = IF STATION_IDS = {} THEN "swap_lock" ELSE "request",
          ![i].changed = (_sig(_conds) # _sig(EmptyStore))]
    /\ UNCHANGED << cfgVars, _conds, flagVars, timeVars, pc, state, conds,
                    stale, ledVars, hist >>

\* fetch_bytes: one urlopen that raises; after the last of the tries the
\* exception leaves fetch_bytes and _do_fetch takes its except branch.
FetchAttemptRaises(i) ==
    /\ Alive /\ threads[i].pc = "request"
    /\ threads' = [threads EXCEPT
          ![i].tries = @ + 1,
          ![i].pc  = IF threads[i].tries + 1 >= FETCH_TRIES THEN "except" ELSE "request",
          ![i].err = IF threads[i].tries + 1 >= FETCH_TRIES THEN "network" ELSE "none"]
    /\ UNCHANGED << cfgVars, _conds, _conds_lock, flagVars, timeVars, pc,
                    state, conds, stale, ledVars, hist >>

\* fetch_bytes returns; parse_json_records, conditions_from_json and the
\* signature comparison follow (all on locals).
FetchResponse(i) ==
    /\ Alive /\ threads[i].pc = "request"
    /\ \E resp \in Responses, clock \in WallSamples :
         LET recs == parse_json_records(resp)
             new  == conditions_from_json(recs, clock)
         IN  IF conditions_raises(recs)
               THEN threads' = [threads EXCEPT ![i].pc = "except",
                                               ![i].err = "shape"]
               ELSE threads' = [threads EXCEPT
                      ![i].pc = "swap_lock",
                      ![i].new_conds = new,
                      ![i].changed = (_sig(threads[i].prev_conds) # _sig(new)),
                      ![i].err = IF resp.kind = "malformed" THEN "parse" ELSE "none"]
    /\ UNCHANGED << cfgVars, _conds, _conds_lock, flagVars, timeVars, pc,
                    state, conds, stale, ledVars, hist >>

\* The store updated in place (_conds.update(new_conds)): stations missing
\* from the new result keep their old entry.
ReplaceMerging(old, new) ==
    [k \in DOMAIN old \cup DOMAIN new |-> IF k \in DOMAIN new THEN new[k] ELSE old[k]]

\* _conds = new_conds: the store after the assignment.
Replace(old, new) == new

FetchSwap(i) ==
    /\ Alive /\ threads[i].pc = "swap" /\ _conds_lock = i
    /\ _conds' = Replace(_conds, threads[i].new_conds)
    /\ _conds_lock' = LockFree
    /\ threads' = [threads EXCEPT ![i].pc = "set_stale"]
    /\ hist' = [hist EXCEPT !.pending = @ \/ (_conds' # _conds),
                             !.before = hist.after,
                             !.after = threads[i].new_conds]
    /\ UNCHANGED << cfgVars, flagVars, timeVars, pc, state, conds, stale,
                    ledVars >>

\* The success branch with the stale flag left out: every refresh is fresh.
FetchSetStaleAlwaysFresh(i) ==
    /\ Alive /\ threads[i].pc = "set_stale"
    /\ last_fetch_age' = 0
    /\ _refresh_stale' = FALSE
    /\ threads' = [threads EXCEPT ![i].pc = "finally"]
    /\ hist' = [hist EXCEPT !.snapLead = IF pc = "r_stale" THEN @ - 1 ELSE @]
    /\ UNCHANGED << cfgVars, _conds, _conds_lock, _fetching, display_left,
                    wait_elapsed, pc, state, conds, stale, ledVars >>

\* _last_fetch = time.time(); _refresh_stale = (not changed) and (not is_initial)
FetchSetStale(i) ==
    /\ Alive /\ threads[i].pc = "set_stale"
    /\ last_fetch_age' = 0
    /\ _refresh_stale' = (~threads[i].changed /\ threads[i].prev_conds # EmptyStore)
    /\ threads' = [threads EXCEPT ![i].pc = "finally"]
    /\ hist' = [hist EXCEPT !.snapLead = IF pc = "r_stale" THEN @ - 1 ELSE @]
    /\ UNCHANGED << cfgVars, _conds, _conds_lock, _fetching, display_left,
                    wait_elapsed, pc, state, conds, stale, ledVars >>

\* except Exception: _last_fetch = time.time() - (FETCH_EVERY_S - ERROR_RETRY_S);
\* _refresh_stale = True
FetchExcept(i) ==
    /\ Alive /\ threads[i].pc = "except"
    /\ last_fetch_age' = FETCH_EVERY_S - ERROR_RETRY_S
    /\ _refresh_stale' = TRUE
    /\ threads' = [threads EXCEPT ![i].pc = "finally"]
    /\ UNCHANGED << cfgVars, _conds, _conds_lock, _fetching, display_left,
                    wait_elapsed, pc, state, conds, stale, ledVars, hist >>

\* _fetching = False as the last statement of the try block instead of in
\* a finally: a fetch that raised leaves the flag set.
FetchFinallyOnSuccessOnly(i) ==
    /\ Alive /\ threads[i].pc = "finally"
    /\ _fetching' = IF threads[i].err \in { "network", "shape" }
                      THEN _fetching ELSE FALSE
    /\ threads' = [threads EXCEPT ![i] = IdleThread]
    /\ hist' = [hist EXCEPT
          !.lastOutcome = IF threads[i].err \in { "network", "shape" }
                            THEN "raised"
                          ELSE IF threads[i].err = "parse" THEN "unparsed"
                          ELSE "ok",
          !.lastInitial = (threads[i].prev_conds = EmptyStore),
          !.lastSame    = (threads[i].prev_conds = threads[i].new_conds)]
    /\ UNCHANGED << cfgVars, _conds, _conds_lock, _refresh_stale, timeVars,
                    pc, state, conds, stale, ledVars >>

\* finally: _fetching = False; the thread ends.
FetchFinally(i) ==
    /\ Alive /\ threads[i].pc = "finally"
    /\ _fetching' = FALSE
    /\ threads' = [threads EXCEPT ![i] = IdleThread]
    /\ hist' = [hist EXCEPT
          !.lastOutcome = IF threads[i].err \in { "network", "shape" }
                            THEN "raised"
                          ELSE IF threads[i].err = "parse" THEN "unparsed"
                          ELSE "ok",
          !.lastInitial = (threads[i].prev_conds = EmptyStore),
          !.lastSame    = (threads[i].prev_conds = threads[i].new_conds)]
    /\ UNCHANGED << cfgVars, _conds, _conds_lock, _refresh_stale, timeVars,
                    pc, state, conds, stale, ledVars >>

----------------------------------------------------------------------------
\* ---------- main() ----------

\* while True: if state == STATE_REFRESH: ... else the display frame
Loop ==
    /\ pc = "loop"
    /\ pc' = IF state = STATE_REFRESH THEN "sfw_start" ELSE "d_lock"
    /\ UNCHANGED << cfgVars, _conds, _conds_lock, flagVars, timeVars, threads,
                    state, conds, stale, ledVars, hist >>

\* The lowest free thread slot.
FreeSlot == CHOOSE i \in ThreadIds : /\ threads[i].pc = "idle"
                                     /\ \A j \in ThreadIds :
                                           threads[j].pc = "idle" => i <= j

\* start_fetch_and_wait without its guard: a thread is started at every call.
StartFetchUnguarded ==
    /\ pc = "sfw_start"
    /\ \E i \in ThreadIds : threads[i].pc = "idle"
    /\ _fetching' = TRUE
    /\ threads' = [threads EXCEPT ![FreeSlot] =
                      [IdleThread EXCEPT !.pc = "prev_lock"]]
    /\ hist' = [hist EXCEPT !.joined = _fetching, !.lastOutcome = "none",
                             !.lastInitial = TRUE, !.lastSame = TRUE]
    /\ wait_elapsed' = 0
    /\ pc' = "sfw_wait"
    /\ UNCHANGED << cfgVars, _conds, _conds_lock, _refresh_stale,
                    last_fetch_age, display_left, state, conds, stale, ledVars >>

\* start_fetch_and_wait: if not _fetching: _fetching = True; start the
\* thread.  Then t0 = time.time().
StartFetch ==
    /\ pc = "sfw_start"
    /\ IF ~_fetching
         THEN /\ \E i \in ThreadIds : threads[i].pc = "idle"
              /\ _fetching' = TRUE
              /\ threads' = [threads EXCEPT ![FreeSlot] =
                                [IdleThread EXCEPT !.pc = "prev_lock"]]
              /\ hist' = [hist EXCEPT !.joined = FALSE, !.lastOutcome = "none",
                                       !.lastInitial = TRUE, !.lastSame = TRUE]
         ELSE /\ UNCHANGED << _fetching, threads >>
              /\ hist' = [hist EXCEPT !.joined = TRUE]
    /\ wait_elapsed' = 0
    /\ pc' = "sfw_wait"
    /\ UNCHANGED << cfgVars, _conds, _conds_lock, _refresh_stale,
                    last_fetch_age, display_left, state, conds, stale, ledVars >>

\* while _fetching and (time.time() - t0) < timeout_s: time.sleep(poll_s)
WaitPoll ==
    /\ pc = "sfw_wait"
    /\ _fetching /\ wait_elapsed < WaitTimeout
    /\ pc' = "sfw_sleep"
    /\ UNCHANGED << cfgVars, _conds, _conds_lock, flagVars, timeVars, threads,
                    state, conds, stale, ledVars, hist >>

WaitWake ==
    /\ pc = "sfw_sleep"
    /\ pc' = "sfw_wait"
    /\ UNCHANGED << cfgVars, _conds, _conds_lock, flagVars, timeVars, threads,
                    state, conds, stale, ledVars, hist >>

\* The wait without its timeout: the loop ends only when the fetch finished.
WaitDoneNoTimeout ==
    /\ pc = "sfw_wait"
    /\ ~_fetching
    /\ pc' = "r_lock"
    /\ wait_elapsed' = 0
    /\ hist' = [hist EXCEPT !.joined = FALSE, !.waited = "completed",
                             !.waits = Min(@ + 1, 2)]
    /\ UNCHANGED << cfgVars, _conds, _conds_lock, flagVars, last_fetch_age,
                    display_left, threads, state, conds, stale, ledVars >>

\* the loop ends: the fetch finished or the wait timed out
WaitDone ==
    /\ pc = "sfw_wait"
    /\ ~(_fetching /\ wait_elapsed < WaitTimeout)
    /\ pc' = "r_lock"
    /\ wait_elapsed' = 0
    /\ hist' = [hist EXCEPT !.joined = FALSE,
                             !.waited = IF _fetching THEN "timeout" ELSE "completed",
                             !.waits = Min(@ + 1, 2)]
    /\ UNCHANGED << cfgVars, _conds, _conds_lock, flagVars, last_fetch_age,
                    display_left, threads, state, conds, stale, ledVars >>

\* with _conds_lock:  (entering; the three places main takes the lock)
MainLock ==
    /\ pc \in { "r_lock", "d_lock", "f_lock" }
    /\ _conds_lock = LockFree
    /\ _conds_lock' = LockMain
    /\ pc' = CASE pc = "r_lock" -> "r_copy"
               [] pc = "d_lock" -> "d_copy"
               [] pc = "f_lock" -> "f_copy"
    /\ UNCHANGED << cfgVars, _conds, flagVars, timeVars, threads, state,
                    conds, stale, ledVars, hist >>

\* REFRESH: conds = _conds.copy()
RefreshCopy ==
    /\ pc = "r_copy" /\ _conds_lock = LockMain
    /\ conds' = _conds
    /\ _conds_lock' = LockFree
    /\ pc' = "r_stale"
    /\ hist' = [hist EXCEPT
          !.pending  = FALSE,
          !.snapLead = IF \E i \in ThreadIds : threads[i].pc = "set_stale"
                         THEN 1 ELSE 0]
    /\ UNCHANGED << cfgVars, _conds, flagVars, timeVars, threads, state,
                    stale, ledVars >>

\* stale = _refresh_stale or not bool(conds)
RefreshStale ==
    /\ pc = "r_stale"
    /\ stale' = (_refresh_stale \/ conds = EmptyStore)
    /\ pc' = "river_off"
    /\ hist' = [hist EXCEPT !.mispaired = (hist.snapLead # 0), !.snapLead = 0]
    /\ UNCHANGED << cfgVars, _conds, _conds_lock, flagVars, timeVars, threads,
                    state, conds, ledVars >>

\* run_refresh_animation, step 2: the target of each mapped LED.
river_targets(cnds, stl) ==
    [i \in 0..(usable_leds - 1) |->
        IF stl THEN COLOR_NODATA
        ELSE IF conds_get(cnds, airport(i)) = None THEN COLOR_NODATA
        ELSE base_color(conds_get(cnds, airport(i)).flightCategory)]

\* targets[i] / snapshot[i]
target(i) == IF i \in DOMAIN targets THEN targets[i] ELSE COLOR_CLEAR

\* run_refresh_animation, steps 1 and 2: all LEDs off, show; the targets.
RiverOff ==
    /\ pc = "river_off"
    /\ pixels' = Written(pixels, 0..(LED_COUNT - 1),
                         [i \in 0..(LED_COUNT - 1) |-> COLOR_CLEAR])
    /\ targets' = river_targets(conds, stale)
    /\ idx' = 0
    /\ step' = 1
    /\ pc' = IF usable_leds > 0 THEN "river_fade" ELSE "river_extra"
    /\ hist' = [hist EXCEPT
          !.oob = @ \/ ~WriteOk(0..(LED_COUNT - 1)) \/ ~MapOk(0..(usable_leds - 1))]
    /\ UNCHANGED << cfgVars, _conds, _conds_lock, flagVars, timeVars, threads,
                    state, conds, stale >>

\* run_refresh_animation, step 3: pixels[idx] = tgt*s/STEPS; show; sleep
RiverFade ==
    /\ pc = "river_fade"
    /\ pixels' = Written(pixels, { idx },
                   [i \in { idx } |-> scale(target(idx), step, REFRESH_FADE_STEPS)])
    /\ IF step < REFRESH_FADE_STEPS
         THEN /\ step' = step + 1
              /\ UNCHANGED << idx, pc >>
         ELSE /\ step' = 1
              /\ idx' = idx + 1
              /\ pc' = IF idx + 1 < usable_leds THEN "river_fade" ELSE "river_extra"
    /\ hist' = [hist EXCEPT !.oob = @ \/ ~WriteOk({ idx })]
    /\ UNCHANGED << cfgVars, _conds, _conds_lock, flagVars, timeVars, threads,
                    state, conds, stale, targets >>

\* run_refresh_animation, step 4: LEDs beyond the mapping off; show
RiverExtra ==
    /\ pc = "river_extra"
    /\ pixels' = Written(pixels, usable_leds..(LED_COUNT - 1),
                         [i \in usable_leds..(LED_COUNT - 1) |-> COLOR_CLEAR])
    /\ pc' = "r_next"
    /\ targets' = << >> /\ idx' = 0 /\ step' = 0     \* the locals are gone
    /\ hist' = [hist EXCEPT !.oob = @ \/ ~WriteOk(usable_leds..(LED_COUNT - 1)),
                             !.rivers = Min(@ + 1, 2)]
    /\ UNCHANGED << cfgVars, _conds, _conds_lock, flagVars, timeVars, threads,
                    state, conds, stale >>

\* display_until = time.time() + FETCH_EVERY_S; state = STATE_DISPLAY; continue
RefreshNext ==
    /\ pc = "r_next"
    /\ display_left' = FETCH_EVERY_S
    /\ state' = STATE_DISPLAY
    /\ pc' = "loop"
    /\ hist' = [hist EXCEPT !.waited = "none", !.mispaired = FALSE,
                             !.fades = 0]
    /\ UNCHANGED << cfgVars, _conds, _conds_lock, flagVars, last_fetch_age,
                    wait_elapsed, threads, conds, stale, ledVars >>

\* DISPLAY: conds = _conds.copy()
DisplayCopy ==
    /\ pc = "d_copy" /\ _conds_lock = LockMain
    /\ conds' = _conds
    /\ _conds_lock' = LockFree
    /\ pc' = "d_frame"
    /\ hist' = [hist EXCEPT !.dispPending = hist.pending]
    /\ UNCHANGED << cfgVars, _conds, flagVars, timeVars, threads, state,
                    stale, ledVars >>

\* The colours of a display frame at monotonic time tnow: mapped LEDs from
\* pick_color_for_station, LEDs beyond the mapping off.
frame_colours(cnds, tnow) ==
    [i \in 0..(LED_COUNT - 1) |->
        IF i < usable_leds
          THEN pick_color_for_station(conds_get(cnds, airport(i)), tnow,
                                      airport(i))
          ELSE COLOR_CLEAR]

\* tnow = time.monotonic(); the two pixel loops; pixels.show(); sleep
DisplayFrame ==
    /\ pc = "d_frame"
    /\ \E tnow \in MonoSamples :
         pixels' = Written(pixels,
                     (0..(usable_leds - 1)) \cup (usable_leds..(LED_COUNT - 1)),
                     frame_colours(conds, tnow))
    /\ pc' = "d_check"
    /\ hist' = [hist EXCEPT !.oob = @ \/ ~WriteOk(0..(usable_leds - 1))
                                     \/ ~MapOk(0..(usable_leds - 1))
                                     \/ ~WriteOk(usable_leds..(LED_COUNT - 1))]
    /\ UNCHANGED << cfgVars, _conds, _conds_lock, flagVars, timeVars, threads,
                    state, conds, stale, targets, idx, step >>

\* The check with the fade-out left out: when the interval has elapsed the
\* loop goes straight back to REFRESH.
DisplayCheckNoFade ==
    /\ pc = "d_check"
    /\ pc' = "loop"
    /\ state' = IF display_left <= 0 THEN STATE_REFRESH ELSE state
    /\ hist' = [hist EXCEPT !.dispPending = FALSE,
                             !.waits  = IF display_left <= 0 THEN 0 ELSE @,
                             !.rivers = IF display_left <= 0 THEN 0 ELSE @]
    /\ UNCHANGED << cfgVars, _conds, _conds_lock, flagVars, timeVars, threads,
                    conds, stale, ledVars >>

\* if time.time() >= display_until: fade out, else the next frame
DisplayCheck ==
    /\ pc = "d_check"
    /\ pc' = IF display_left <= 0 THEN "f_lock" ELSE "loop"
    /\ hist' = [hist EXCEPT !.dispPending = FALSE]
    /\ UNCHANGED << cfgVars, _conds, _conds_lock, flagVars, timeVars, threads,
                    state, conds, stale, ledVars >>

\* conds_for_fade = _conds.copy()   (held in conds, which is dead here)
FadeCopy ==
    /\ pc = "f_copy" /\ _conds_lock = LockMain
    /\ conds' = _conds
    /\ _conds_lock' = LockFree
    /\ pc' = "fade_snap"
    /\ UNCHANGED << cfgVars, _conds, flagVars, timeVars, threads, state,
                    stale, ledVars, hist >>

\* run_fade_out: the snapshot of each LED's colour at t0 = time.monotonic()
FadeSnapshot ==
    /\ pc = "fade_snap"
    /\ \E tmono \in MonoSamples : targets' = frame_colours(conds, tmono)
    /\ step' = REFRESH_FADE_STEPS
    /\ pc' = "fade_step"
    /\ hist' = [hist EXCEPT !.oob = @ \/ ~MapOk(0..(usable_leds - 1)),
                             !.fades = Min(@ + 1, 2)]
    /\ UNCHANGED << cfgVars, _conds, _conds_lock, flagVars, timeVars, threads,
                    state, conds, stale, idx, pixels >>

\* run_fade_out: for s in range(steps, -1, -1): every LED = snapshot*s/steps;
\* show; sleep.  After the last frame: state = STATE_REFRESH.
FadeStep ==
    /\ pc = "fade_step"
    /\ pixels' = Written(pixels, 0..(LED_COUNT - 1),
                   [i \in 0..(LED_COUNT - 1) |->
                       scale(target(i), step, REFRESH_FADE_STEPS)])
    /\ IF step > 0
         THEN /\ step' = step - 1
              /\ UNCHANGED << pc, state, targets >>
         ELSE /\ step' = 0
              /\ targets' = << >>                    \* the locals are gone
              /\ state' = STATE_REFRESH
              /\ pc' = "loop"
    /\ hist' = [hist EXCEPT !.oob = @ \/ ~WriteOk(0..(LED_COUNT - 1)),
                             !.waits  = IF step > 0 THEN @ ELSE 0,
                             !.rivers = IF step > 0 THEN @ ELSE 0]
    /\ UNCHANGED << cfgVars, _conds, _conds_lock, flagVars, timeVars, threads,
                    conds, stale, idx >>

----------------------------------------------------------------------------
\* ---------- environment ----------

\* The process ends: its threads and its memory go with it (the strip keeps
\* the last committed frame).
ProcessEnds ==
    /\ _conds' = EmptyStore /\ _conds_lock' = LockFree
    /\ _fetching' = FALSE /\ _refresh_stale' = FALSE
    /\ last_fetch_age' = 0 /\ display_left' = 0 /\ wait_elapsed' = 0
    /\ threads' = [i \in ThreadIds |-> IdleThread]
    /\ conds' = EmptyStore /\ stale' = FALSE
    /\ targets' = << >> /\ idx' = 0 /\ step' = 0
    /\ UNCHANGED << cfgVars, state, pixels, hist >>

\* A pixel write or pixels.show() raises: nothing in main catches it, and
\* __main__ catches KeyboardInterrupt only, so the process ends.
LedFailure ==
    /\ pc \in { "river_off", "river_fade", "river_extra", "d_frame", "fade_step" }
    /\ pc' = "crashed"
    /\ ProcessEnds

\* KeyboardInterrupt in the main thread: sys.exit(0)
Interrupt ==
    /\ Alive
    /\ pc' = "exited"
    /\ ProcessEnds

\* The wall clock advances by TickS seconds.
Tick ==
    /\ Alive
    /\ last_fetch_age' = Min(last_fetch_age + TickS, FETCH_EVERY_S)
    /\ display_left' = Max(display_left - TickS, 0)
    /\ wait_elapsed' = IF pc \in { "sfw_wait", "sfw_sleep" }
                         THEN Min(wait_elapsed + TickS, WaitTimeout)
                         ELSE wait_elapsed
    /\ UNCHANGED << cfgVars, _conds, _conds_lock, flagVars, threads, pc,
                    state, conds, stale, ledVars, hist >>

Fetcher ==
    \E i \in ThreadIds :
        \/ FetchLock(i)
        \/ FetchPrevCopy(i)
        \/ FetchAttemptRaises(i)
        \/ FetchResponse(i)
        \/ FetchSwap(i)
        \/ FetchSetStale(i)
        \/ FetchExcept(i)
        \/ FetchFinally(i)

Main ==
    \/ Loop
    \/ StartFetch
    \/ WaitPoll
    \/ WaitWake
    \/ WaitDone
    \/ MainLock
    \/ RefreshCopy
    \/ RefreshStale
    \/ RiverOff
    \/ RiverFade
    \/ RiverExtra
    \/ RefreshNext
    \/ DisplayCopy
    \/ DisplayFrame
    \/ DisplayCheck
    \/ FadeCopy
    \/ FadeSnapshot
    \/ FadeStep

Next == Main \/ Fetcher \/ LedFailure \/ Interrupt \/ Tick

Spec == Init /\ [][Next]_vars

SpecLayout == InitLayout /\ [][Next]_vars

\* The main thread is scheduled and the clock moves.  Nothing is assumed of
\* the fetch thread (the network may never answer), of the strip or of the
\* user.
SpecFair == Init /\ [][Next]_vars /\ WF_vars(Main) /\ WF_vars(Tick)

\* The threads are scheduled, and every urlopen returns or raises
\* (socket.setdefaulttimeout(NETWORK_TIMEOUT_S)).  A fetch thread that waits
\* for _conds_lock gets it: main holds the lock for one dict copy at a time
\* and sleeps between two of them, hence the strong fairness.
SpecFetchFair == Init /\ [][Next]_vars /\ WF_vars(Main) /\ SF_vars(Fetcher)

----------------------------------------------------------------------------
\* ---------- pick_color_for_station over time ----------

\* A Condition as conditions_from_json builds it.
Cond(fc, wspd, wgst, ltg) ==
    [flightCategory |-> fc, windSpeed |-> wspd, windGustSpeed |-> wgst,
     lightning |-> ltg, obsTime |-> 100]

\* <<windSpeed, windGustSpeed>>: gusty below the threshold, a gust above
\* the very-high threshold, and both thresholds with their neighbours.
WindSamples ==
    { <<10, 15>>, <<10, 40>>, <<24, 0>>, <<25, 0>>, <<30, 0>>, <<34, 10>>,
      <<35, 0>> }

\* flightCategory: recognized, absent, unrecognized.
CategorySamples == { "MVFR", "", "UNKN" }

\* The conditions conds.get(icao) hands to pick_color_for_station.
CondSamples ==
    { Cond(fc, w[1], w[2], ltg) :
        fc \in CategorySamples, w \in WindSamples, ltg \in BOOLEAN }
    \cup { None }

\* The stations of the probe.
ProbeStations == { "KRBG", "K77S" }

\* time.monotonic() at the first frame observed, in ms.
StartSamples == { 3 }

\* The time from one frame's tnow to the next, in ms: time.sleep(0.05), and
\* a frame that takes 10 ms of its own.
FrameSteps == { 50, 60 }

\* One look at pick_color_for_station: its arguments, the colour returned
\* and what the frames so far have shown.
Look(cnd, icao, t, elapsed, since, old) ==
    LET c == pick_color_for_station(cnd, t, icao)
    IN  [kind |-> "colour", cond |-> cnd, icao |-> icao, t |-> t,
         elapsed |-> elapsed, colour |-> c,
         since |-> since,
         sawLightning |-> old.sawLightning \/ c = COLOR_LIGHTNING,
         sawHigh      |-> old.sawHigh \/ c = COLOR_HIGHWIND,
         sawBase      |-> old.sawBase
                            \/ (cnd # None /\ c = base_color(cnd.flightCategory)),
         sawOther     |-> old.sawOther \/ c # COLOR_LIGHTNING]

NothingSeen ==
    [sawLightning |-> FALSE, sawHigh |-> FALSE, sawBase |-> FALSE,
     sawOther |-> FALSE]

\* The display loop's first frame for one station, with either setting of
\* ALWAYS_ANIMATE_FOR_GUSTS.
InitColor ==
    /\ LED_COUNT = MaxLeds
    /\ AIRPORTS = SubSeq(AirportList, 1, MaxMap)
    /\ ALWAYS_ANIMATE_FOR_GUSTS \in BOOLEAN
    /\ \E cnd \in CondSamples, icao \in ProbeStations, t0 \in StartSamples :
          probe = Look(cnd, icao, t0, 0, 0, NothingSeen)
    /\ Startup

\* The next frame of the display loop: tnow = time.monotonic();
\* pixels[idx] = pick_color_for_station(cond, tnow, icao).  since is the
\* time for which the colour has not changed.
ColorFrame ==
    /\ probe.kind = "colour" /\ probe.elapsed < HorizonMs
    /\ \E dt \in FrameSteps :
         LET t == probe.t + dt
             c == pick_color_for_station(probe.cond, t, probe.icao)
         IN  probe' = Look(probe.cond, probe.icao, t, probe.elapsed + dt,
                           IF c = probe.colour THEN probe.since + dt ELSE 0,
                           probe)
    /\ UNCHANGED << LED_COUNT, AIRPORTS, ALWAYS_ANIMATE_FOR_GUSTS, _conds,
                    _conds_lock, flagVars, timeVars, threads, pc, state,
                    conds, stale, ledVars, hist >>

NextColor == ColorFrame

SpecColor == InitColor /\ [][NextColor]_vars

----------------------------------------------------------------------------
\* ---------- conditions_from_json on its own ----------

\* A second, dated report of KEUG.
R_KEUG_dated == Rec("KEUG", 150, "IFR", 12, NoVal, << "KEUG", "12KT" >>)

\* The records of a response: two spellings and two report times of KRBG,
\* KEUG dated and undated, a record without a station id.
ProbeRecords ==
    { R_KRBG_old, R_KRBG_new, R_K77S, R_KEUG, R_KEUG_dated, R_noid }

\* The responses: the records in any order, any of them repeated.
RecordLists == UNION { [1..n -> ProbeRecords] : n \in 0..MaxRecs }

\* now() at each of n records: a clock that stands still during the parse,
\* and one that moves from record to record.
ProbeClocks(n) == { [i \in 1..n |-> 1000], [i \in 1..n |-> 1000 + i] }

\* new_conds = conditions_from_json(recs), about to be called.
InitParse ==
    /\ LED_COUNT = MaxLeds
    /\ AIRPORTS = SubSeq(AirportList, 1, MaxMap)
    /\ ALWAYS_ANIMATE_FOR_GUSTS = FALSE
    /\ \E recs \in RecordLists :
         \E clock \in ProbeClocks(Len(recs)) :
            probe = [kind |-> "parse", records |-> recs, clock |-> clock,
                     done |-> FALSE, out |-> EmptyStore]
    /\ Startup

\* The call returns.
ParseRecords ==
    /\ probe.kind = "parse" /\ ~probe.done
    /\ probe' = [probe EXCEPT
                    !.out  = conditions_from_json(probe.records, probe.clock),
                    !.done = TRUE]
    /\ UNCHANGED << LED_COUNT, AIRPORTS, ALWAYS_ANIMATE_FOR_GUSTS, _conds,
                    _conds_lock, flagVars, timeVars, threads, pc, state,
                    conds, stale, ledVars, hist >>

NextParse == ParseRecords

SpecParse == InitParse /\ [][NextParse]_vars

----------------------------------------------------------------------------
\* ---------- properties ----------

\* C1: at most one _do_fetch is running in every reachable state, and one
\* runs only while the in-flight flag _fetching is set; a call of
\* start_fetch_and_wait that finds the flag set starts no thread.
C1_SingleFetch ==
    /\ Cardinality(Running) <= 1
    /\ Running # {} => _fetching

\* C1 witness: a refresh began while the fetch of an earlier refresh, whose
\* wait had timed out, was still running, and started no second thread.
C1_Witness ==
    /\ pc = "sfw_wait" /\ hist.joined /\ _fetching
    /\ Cardinality(Running) = 1

\* C2: every snapshot main holds of the store is one complete store: the
\* result the latest swap installed, or the one the swap before it
\* installed (the store before that fetch); the store itself is always the
\* latest complete result.
C2_SnapshotAtomic ==
    /\ _conds = hist.after \/ pc \in { "crashed", "exited" }
    /\ pc \in { "r_stale", "river_off", "d_frame", "fade_snap" }
          => conds \in { hist.before, hist.after }

\* C2 witness: main holds a snapshot it took while a fetch was running, and
\* that fetch has replaced the store since.
C2_Witness ==
    /\ pc = "d_frame" /\ Running # {}
    /\ conds = hist.before /\ conds # _conds
    /\ conds # EmptyStore /\ _conds # EmptyStore

InWait == pc \in { "sfw_wait", "sfw_sleep" }

\* C3 as stated: while a fetch is in flight the render loop is never found
\* waiting for it with time passing and no frame rendered.
C3_NeverBlocks == ~(InWait /\ _fetching /\ wait_elapsed > 0)

\* C3 amended: the render loop does wait for the fetch in
\* start_fetch_and_wait, but only while less than timeout_s = 30 s of the
\* wait have passed, and it always leaves the wait, whether or not the fetch
\* ever finishes.
C3_WaitBounded ==
    /\ [][(pc = "sfw_wait" /\ pc' = "sfw_sleep") => wait_elapsed < WaitTimeout]_vars
    /\ (InWait ~> ~InWait)

\* C3 witness: the wait timed out and main renders a display frame while
\* the fetch is still in flight.
C3_Witness ==
    /\ pc = "d_frame" /\ state = STATE_DISPLAY
    /\ _fetching /\ Running # {}

\* C4 as stated: when a fetch ends in a network or parse failure, the store
\* holds what it held when the fetch started.
C4_FailureKeepsStore ==
    \A i \in ThreadIds :
        (threads[i].pc = "finally" /\ threads[i].err # "none")
            => _conds = threads[i].prev_conds

\* C5 as stated: once ERROR_RETRY_S have passed since a fetch failed (that
\* is when the code's own _last_fetch says a refresh is due) and no fetch is
\* in flight, the display loop does not go on to another frame: it turns to
\* the refresh that starts the next fetch.
C5_RetryAfterErrorInterval ==
    [][~(/\ pc = "d_check" /\ pc' = "loop"
         /\ hist.lastOutcome = "raised" /\ ~_fetching
         /\ last_fetch_age >= FETCH_EVERY_S
         /\ display_left > 0)]_vars

\* C6 as stated: with the store empty after a failed first fetch and no
\* fetch in flight, the display loop triggers a fetch instead of going on
\* to another frame.
C6_EmptyStoreTriggersFetch ==
    [][~(/\ pc = "d_check" /\ pc' = "loop"
         /\ _conds = EmptyStore /\ ~_fetching
         /\ hist.lastOutcome = "raised" /\ hist.lastInitial)]_vars

\* C7 as stated: a failure writing to the LED sink does not end the
\* process; only a user interrupt does.
C7_OnlyInterruptEnds == pc # "crashed"

\* C8 as stated: no display frame is committed from a store that a fetch
\* replaced after the last refresh transition took its snapshot.
C8_TransitionBeforeDisplay == ~(pc = "d_check" /\ hist.dispPending)

\* The stale colour the claim C9 expects after a fetch that completed within
\* the wait: the fetch failed, or the store is empty, or the fetch succeeded
\* on a non-empty store and changed nothing.
C9_ExpectStale ==
    \/ hist.lastOutcome = "raised"
    \/ conds = EmptyStore
    \/ (hist.lastOutcome \in { "ok", "unparsed" } /\ ~hist.lastInitial /\ hist.lastSame)

\* C9: after a fetch that completed within the wait, the river animation is
\* handed stale = TRUE exactly in the cases above, and its targets are the
\* no-data colour for every mapped LED when stale, otherwise the base
\* category colour of each station in the store (no-data for a station not
\* in it).
C9_StaleBySignature ==
    (hist.waited = "completed") =>
        /\ pc \in { "river_off", "river_fade" } => stale = C9_ExpectStale
        /\ pc = "river_fade" =>
              \A i \in 0..(usable_leds - 1) :
                  targets[i] =
                      IF C9_ExpectStale THEN COLOR_NODATA
                      ELSE IF airport(i) \in DOMAIN conds
                        THEN base_color(conds[airport(i)].flightCategory)
                      ELSE COLOR_NODATA

\* C9 witness: a fetch on a non-empty store succeeded within the wait with
\* an unchanged signature, and the river runs with the stale colour.
C9_Witness ==
    /\ pc = "river_fade" /\ hist.waited = "completed"
    /\ hist.lastOutcome = "ok" /\ ~hist.lastInitial /\ hist.lastSame
    /\ conds # EmptyStore /\ stale /\ targets[0] = COLOR_NODATA

\* C10: no pixel write or mapping read is out of range; every LED beyond the
\* mapping's length is off in every committed frame; and a display frame
\* shows, on each of the first min(len(AIRPORTS), LED_COUNT) LEDs, the colour
\* of the mapping entry with the same index.
C10_Layout ==
    /\ ~hist.oob
    /\ DOMAIN pixels = 1..LED_COUNT
    /\ \A i \in 1..LED_COUNT : i > Len(AIRPORTS) => pixels[i] = COLOR_CLEAR
    /\ pc = "d_check" =>
          \A i \in 1..Min(Len(AIRPORTS), LED_COUNT) :
              \E t \in MonoSamples :
                  pixels[i] = pick_color_for_station(
                                  conds_get(conds, AIRPORTS[i]), t, AIRPORTS[i])

\* C10 witness: a mapping longer than the strip, after a display frame that
\* lit the last LED of the strip from its mapping entry.
C10_Witness ==
    /\ Len(AIRPORTS) > LED_COUNT /\ pc = "d_check"
    /\ pixels[LED_COUNT] \notin { COLOR_CLEAR, COLOR_NODATA }

\* The probe follows a station with lightning reported / without it.
LightningProbe ==
    probe.kind = "colour" /\ probe.cond # None /\ probe.cond.lightning
PlainProbe ==
    probe.kind = "colour" /\ probe.cond # None /\ ~probe.cond.lightning

\* The frames seen cover one full lightning period.
OnePeriodSeen == probe.elapsed >= LIGHTNING_FLASH_PERIOD_MS

OneBlinkSeen ==
    probe.elapsed >= 2 * jittered_period(WIND_BLINK_SPEED_MS, probe.icao)

\* C12 as stated: with ALWAYS_ANIMATE_FOR_GUSTS on, a station with wind 10,
\* gust 40 and no lightning shows both its base colour and the high-wind
\* colour within one wind cycle.
C12_GustAnimates ==
    (/\ PlainProbe /\ ALWAYS_ANIMATE_FOR_GUSTS
     /\ probe.cond.windSpeed = 10 /\ probe.cond.windGustSpeed = 40
     /\ OneBlinkSeen)
        => (probe.sawBase /\ probe.sawHigh)

\* C12 amended: with ALWAYS_ANIMATE_FOR_GUSTS on, a station with a gust,
\* no lightning and max(wind, gust) below the very-high threshold shows only
\* its base colour and the high-wind colour, and both within one wind
\* cycle, whatever its sustained speed; with wind or gust at or above the
\* very-high threshold the colour is the solid high-wind colour.
C12_GustAnimatesBelowVeryHigh ==
    (PlainProbe /\ ALWAYS_ANIMATE_FOR_GUSTS /\ probe.cond.windGustSpeed > 0) =>
        IF is_very_high_wind(probe.cond)
          THEN probe.colour = COLOR_HIGHWIND /\ ~probe.sawBase
          ELSE /\ probe.colour \in { base_color(probe.cond.flightCategory),
                                     COLOR_HIGHWIND }
               /\ OneBlinkSeen => (probe.sawBase /\ probe.sawHigh)

\* C12 witness: with the setting on, wind 10 and gust 15 (both below the
\* animation threshold) have shown both colours.
C12_Witness ==
    /\ PlainProbe /\ ALWAYS_ANIMATE_FOR_GUSTS
    /\ probe.cond.windSpeed = 10 /\ probe.cond.windGustSpeed = 15
    /\ probe.sawBase /\ probe.sawHigh

\* The longest time from one frame to the next.
MaxFrameStep == CHOOSE d \in FrameSteps : \A e \in FrameSteps : e <= d

\* max(windSpeed, windGustSpeed) of the probed condition.
ProbeWind == Max(probe.cond.windSpeed, probe.cond.windGustSpeed)

\* C13: for a station without lightning whose max(wind, gust) is at or
\* above the animation threshold and below the very-high threshold, every
\* frame shows the base colour or the high-wind colour, the colour never
\* stays the same for so long that a window of two wind periods would show
\* one colour only, and a full wind cycle has shown both.
C13_WindAlternates ==
    (/\ PlainProbe
     /\ ProbeWind >= WIND_ANIM_THRESHOLD_KT
     /\ ProbeWind < VERY_HIGH_WIND_YELLOW_KT)
        => /\ probe.colour \in { base_color(probe.cond.flightCategory),
                                 COLOR_HIGHWIND }
           /\ probe.since + 2 * MaxFrameStep < 2 * WIND_BLINK_SPEED_MS
           /\ OneBlinkSeen => (probe.sawBase /\ probe.sawHigh)

\* C13 witness: wind 30, gust 0, no lightning: after the high-wind colour
\* the frame shows the base colour again.
C13_Witness ==
    /\ PlainProbe /\ ~ALWAYS_ANIMATE_FOR_GUSTS
    /\ probe.cond.windSpeed = 30 /\ probe.cond.windGustSpeed = 0
    /\ OneBlinkSeen /\ probe.sawHigh
    /\ probe.colour = base_color(probe.cond.flightCategory)
    /\ probe.since = 0

\* The whiteness of the probed frame, and the probed station's base colour.
ProbeWhiteness == lightning_gate_and_fade(probe.t, probe.icao)
ProbeBase      == base_color(probe.cond.flightCategory)

\* The colour of the rules below the lightning rule: solid high-wind from
\* the very-high threshold, else base or high-wind from the animation
\* threshold (or with a gust when ALWAYS_ANIMATE_FOR_GUSTS is on), else
\* base.
WindRulesHold ==
    IF ProbeWind >= VERY_HIGH_WIND_YELLOW_KT
      THEN probe.colour = COLOR_HIGHWIND
    ELSE IF \/ ProbeWind >= WIND_ANIM_THRESHOLD_KT
            \/ (ALWAYS_ANIMATE_FOR_GUSTS /\ probe.cond.windGustSpeed > 0)
      THEN /\ probe.colour \in { ProbeBase, COLOR_HIGHWIND }
           /\ OneBlinkSeen /\ ~probe.cond.lightning => probe.sawHigh
    ELSE probe.colour = ProbeBase

\* The colour of the lightning rule: pure at full whiteness, else the blend
\* of base and lightning colour.
LightningRuleHolds ==
    probe.colour = IF ProbeWhiteness[1] >= ProbeWhiteness[2]
                     THEN COLOR_LIGHTNING
                     ELSE blend(ProbeBase, COLOR_LIGHTNING,
                                ProbeWhiteness[1], ProbeWhiteness[2])

\* C14 as stated: the first matching rule decides the colour: no-data for
\* an absent condition, else the lightning flash/blend whenever lightning
\* is reported, else the wind rules.
C14_FirstMatchWins ==
    probe.kind = "colour" =>
        IF probe.cond = None THEN probe.colour = COLOR_NODATA
        ELSE IF ACTIVATE_LIGHTNING_ANIMATION /\ probe.cond.lightning
          THEN LightningRuleHolds
        ELSE WindRulesHold

\* C14 amended: the lightning rule decides the colour only while the
\* whiteness is above 0 (flash and fade); for the rest of the period a
\* station with lightning is coloured by the wind rules like any other.
C14_PriorityOrder ==
    probe.kind = "colour" =>
        IF probe.cond = None THEN probe.colour = COLOR_NODATA
        ELSE IF /\ ACTIVATE_LIGHTNING_ANIMATION /\ probe.cond.lightning
                /\ ProbeWhiteness[1] > 0
          THEN LightningRuleHolds
        ELSE WindRulesHold

\* C14 witness: a station with lightning and very high wind has flashed
\* and, the fade over, shows the solid high-wind colour.
C14_Witness ==
    /\ LightningProbe /\ ProbeWind >= VERY_HIGH_WIND_YELLOW_KT
    /\ probe.sawLightning /\ ProbeWhiteness[1] = 0
    /\ probe.colour = COLOR_HIGHWIND

\* The probed condition is present and its flightCategory is absent or not
\* one of the four categories.
Uncategorized ==
    /\ probe.kind = "colour" /\ probe.cond # None
    /\ probe.cond.flightCategory \notin { "VFR", "MVFR", "IFR", "LIFR" }

\* No lightning whiteness and no wind rule applies to the probed frame.
NoHazardShown ==
    /\ ~probe.cond.lightning \/ ProbeWhiteness[1] = 0
    /\ ProbeWind < WIND_ANIM_THRESHOLD_KT
    /\ ~(ALWAYS_ANIMATE_FOR_GUSTS /\ probe.cond.windGustSpeed > 0)

\* C15 as stated: an absent condition gives the no-data colour, and a
\* present condition without a recognized category gives the clear colour.
C15_UncategorizedIsClear ==
    /\ (probe.kind = "colour" /\ probe.cond = None)
          => probe.colour = COLOR_NODATA
    /\ Uncategorized => probe.colour = COLOR_CLEAR

\* C15 amended: an absent condition gives the no-data colour; for a present
\* condition without a recognized category the clear colour is the base
\* colour: it is returned when no lightning or wind rule applies, the
\* lightning fade blends from it, and the wind rules show the high-wind
\* colour or it.
C15_UncategorizedBaseIsClear ==
    /\ (probe.kind = "colour" /\ probe.cond = None)
          => probe.colour = COLOR_NODATA
    /\ Uncategorized =>
          /\ NoHazardShown => probe.colour = COLOR_CLEAR
          /\ (probe.cond.lightning /\ ProbeWhiteness[1] > 0) =>
                probe.colour = blend(COLOR_CLEAR, COLOR_LIGHTNING,
                                     ProbeWhiteness[1], ProbeWhiteness[2])
          /\ (~probe.cond.lightning \/ ProbeWhiteness[1] = 0) =>
                probe.colour \in { COLOR_CLEAR, COLOR_HIGHWIND }

\* C15 witness: a present condition with an unrecognized category and no
\* hazard is shown in the clear colour, frame after frame.
C15_Witness ==
    /\ Uncategorized /\ probe.cond.flightCategory = "UNKN"
    /\ ~probe.cond.lightning /\ NoHazardShown
    /\ probe.elapsed > 0 /\ probe.colour = COLOR_CLEAR

\* The station and the observation time of the i-th record parsed.
StationAt(i) == StripUpper(probe.records[i].icaoId)
ObsAt(i) ==
    IF probe.records[i].reportTime = NoVal THEN probe.clock[i]
    ELSE probe.records[i].reportTime
RecordsOf(k) == { i \in DOMAIN probe.records : StationAt(i) = k }

\* The Condition of the i-th record.
ConditionAt(i) ==
    [flightCategory |-> StripUpper(probe.records[i].fltCat),
     windSpeed      |-> to_int(probe.records[i].wspd),
     windGustSpeed  |-> to_int(probe.records[i].wgst),
     lightning      |-> lightning_of(probe.records[i].rawOb),
     obsTime        |-> ObsAt(i)]

\* C16: the result of conditions_from_json has an entry for exactly the
\* stations that appear in the records, and each entry is the Condition of
\* a record of that station that no other record of the station is later
\* than.
C16_LatestPerStation ==
    (probe.kind = "parse" /\ probe.done) =>
        /\ DOMAIN probe.out =
              { StationAt(i) : i \in DOMAIN probe.records } \ { "" }
        /\ \A k \in DOMAIN probe.out :
              \E i \in RecordsOf(k) :
                 /\ \A j \in RecordsOf(k) : ObsAt(j) <= ObsAt(i)
                 /\ probe.out[k] = ConditionAt(i)

\* C16 witness: the later report of KRBG came first and the earlier one
\* after it, under another spelling, and the result holds the later one.
C16_Witness ==
    /\ probe.kind = "parse" /\ probe.done
    /\ Len(probe.records) >= 2
    /\ probe.records[1] = R_KRBG_new /\ probe.records[2] = R_KRBG_old
    /\ probe.out["KRBG"] = ConditionAt(1)

\* C17: while the program runs, a station that has an entry in the store
\* keeps an entry, and the entry's observation time never goes back: a
\* fetch that omits the station or brings an older report of it changes
\* nothing for that station.
C17_LatestEverFetched ==
    [][pc' \notin { "crashed", "exited" } =>
          \A k \in DOMAIN _conds :
             /\ k \in DOMAIN _conds'
             /\ _conds'[k].obsTime >= _conds[k].obsTime]_vars

\* C18: a fetch makes at most FETCH_TRIES requests, and whenever the
\* in-flight flag is set it is cleared again later, whether the fetch
\* succeeds or raises.
C18_FetchTerminates ==
    /\ [][\A i \in ThreadIds :
            /\ threads'[i].tries <= FETCH_TRIES
            /\ (threads[i].pc = "request" /\ threads'[i].pc = "request")
                  => threads'[i].tries < FETCH_TRIES]_vars
    /\ (_fetching ~> ~_fetching)

\* C18 witness: a fetch raised after its last try and the flag is clear
\* again while the program runs.
C18_Witness ==
    /\ Alive /\ ~_fetching /\ Running = {}
    /\ hist.lastOutcome = "raised"

\* C19: the river never runs with a store snapshot and a stale flag of
\* which one was written by a fetch that had not yet written the other
\* when main read it.
C19_SnapshotAndFlagPaired == ~hist.mispaired

\* C20: main starts in REFRESH with no fade-out behind it; it goes from
\* REFRESH to DISPLAY after exactly one wait for the fetch and one river,
\* the river after the wait, both in REFRESH; in DISPLAY it goes on to the
\* next frame while the interval has not elapsed and begins the fade-out
\* only after a frame, once it has; and it goes from DISPLAY to REFRESH
\* after exactly one fade-out.
C20_Alternation ==
    /\ state = STATE_REFRESH /\ hist.fades = 0
    /\ [][/\ (state = STATE_REFRESH /\ state' = STATE_DISPLAY)
               => (hist.waits = 1 /\ hist.rivers = 1)
          /\ (state = STATE_DISPLAY /\ state' = STATE_REFRESH)
               => (hist.fades = 1 /\ display_left <= 0)
          /\ (hist.waits' > hist.waits \/ hist.rivers' > hist.rivers)
               => (state = STATE_REFRESH /\ state' = STATE_REFRESH)
          /\ hist.rivers' > hist.rivers => hist.waits = 1
          /\ hist.fades' > hist.fades
               => (state = STATE_DISPLAY /\ state' = STATE_DISPLAY)
          /\ (pc = "d_check" /\ pc' = "loop")
               => (display_left > 0 /\ state' = STATE_DISPLAY)
          /\ (pc # "f_lock" /\ pc' = "f_lock")
               => (pc = "d_check" /\ display_left <= 0)]_vars

\* C20 witness: the second REFRESH: one fade-out has run and main waits
\* for the fetch again.
C20_Witness ==
    /\ state = STATE_REFRESH /\ pc = "sfw_wait"
    /\ hist.fades = 1 /\ hist.waits = 0 /\ hist.rivers = 0

=============================================================================
